---- MODULE Spec2Model ----
(***************************************************************************)
(* State-machine model of the reflector subscription contract              *)
(* (src/src/lib.rs).  One action per public entry point; every action is   *)
(* the whole invocation.  A panicking invocation is reverted by the host   *)
(* and changes nothing: each entry point has an operator <op>_error that   *)
(* computes the error the code raises (its checks in source order), and    *)
(* the action is enabled when that error is "none".  What an invocation   *)
(* returns and what it does to the outside (store writes, events, token    *)
(* calls, in order) are the operators <op>_ret and <op>_effects.           *)
(***************************************************************************)
EXTENDS Integers, Sequences, FiniteSets, TLC

(* ------------------------------ bounds -------------------------------- *)
\* largest fee the admin configures or sets
MaxFee == 2
\* tokens minted to "alice" before the contract is used ("bob" holds 1)
Mint == 3
\* number of clock advances (of half a day each)
MaxTicks == 4
\* number of subscriptions created
MaxSubs == 2
\* longest id list handed to charge
MaxBatch == 2

(* ------------------------- program constants -------------------------- *)
DAY == 86400 * 1000
MAX_WEBHOOK_SIZE == 2048
MIN_FEE_FACTOR == 1
MIN_HEARTBEAT == 5
\* the width of u64
U64_BITS == 64

(* ------------------------------ inputs -------------------------------- *)
\* the clock advances by half a day (ledger seconds)
TickSeconds == 86400 \div 2
Contract == "contract"
NoAddress == "none"
Addresses == {"admin", "alice", "bob"}
\* the address a deployment is configured with
ConfigAdmins == {"admin"}
\* the address that opens subscriptions; "bob" only pays into them
Owners == {"alice"}
Fees == 0 .. MaxFee
Amounts == 0 .. Mint
Heartbeats == {MIN_HEARTBEAT - 1, MIN_HEARTBEAT}
Thresholds == {0, 10, 1001}
WebhookLens == {MAX_WEBHOOK_SIZE, MAX_WEBHOOK_SIZE + 1}
\* subscription ids a caller may name: every id that can exist and one that never does
Ids == 1 .. (MaxSubs + 1)
SeqsUpTo(S, n) == UNION {[1 .. k -> S] : k \in 0 .. n}
Batches == SeqsUpTo(Ids, MaxBatch)

VARIABLES
    admin,                  \* instance storage: admin address, NoAddress when unset
    fee,                    \* instance storage: base fee
    token,                  \* instance storage: token contract address
    last_subscription_id,   \* instance storage: last assigned subscription id
    subscriptions,          \* persistent storage: id -> Subscription
    timestamp,              \* ledger timestamp, seconds
    balances,               \* the token ledger: holder -> amount
    unit_bits               \* every amount counts units of 2^unit_bits tokens

vars == <<admin, fee, token, last_subscription_id, subscriptions, timestamp,
          balances, unit_bits>>
storage == <<admin, fee, token, last_subscription_id, subscriptions>>

(* ------------------------------ helpers ------------------------------- *)
now == timestamp * 1000

is_initialized == admin # NoAddress

\* Address::require_auth against the address that signed the invocation
require_auth(address, signer) == address = signer

\* EnvExtensions::panic_if_not_admin: an error unless the admin signed
not_admin_error(signer) ==
    IF admin = NoAddress \/ ~require_auth(admin, signer) THEN "Unauthorized" ELSE "none"

\* TokenClient::transfer; the caller has checked bal[from] >= amount
transfer_tokens(bal, from, to, amount) ==
    [a \in DOMAIN bal |->
        IF a = from /\ a = to THEN bal[a]
        ELSE IF a = from THEN bal[a] - amount
        ELSE IF a = to THEN bal[a] + amount
        ELSE bal[a]]

\* TokenClient::burn from the contract's own holdings
burn_tokens(bal, amount) == [bal EXCEPT ![Contract] = @ - amount]

Event(topic, owner, data) == [kind |-> "event", topic |-> topic, owner |-> owner, data |-> data]
Write(id) == [kind |-> "set", id |-> id]
Transfer(from, to, amount) == [kind |-> "transfer", from |-> from, to |-> to, amount |-> amount]
Burn(amount) == [kind |-> "burn", amount |-> amount]

(* --------------------------- u64 arithmetic --------------------------- *)
\* fee, amounts, balances and total_charge are u64.  An amount x of the model
\* stands for x * 2^unit_bits tokens; the operations of the contract on amounts
\* (comparison, sum, difference, product with a day count) commute with that
\* factor, so a run of the model is the run of the contract on the scaled
\* amounts.  With unit_bits = 0 no amount of the model comes near 2^64.
\* whether x units are more than a u64 holds
overflows_u64(x) == unit_bits > 0 /\ x >= 2 ^ (U64_BITS - unit_bits)

\* the u64 a wrapping operation leaves
wrap_u64(x) == IF overflows_u64(x) THEN x % (2 ^ (U64_BITS - unit_bits)) ELSE x

(* ------------------------------ Init ---------------------------------- *)
Init ==
    /\ admin = NoAddress
    /\ fee = 0
    /\ token = NoAddress
    /\ last_subscription_id = 0
    /\ subscriptions = << >>
    /\ timestamp = 0
    /\ balances = [a \in Addresses \cup {Contract} |-> IF a = "alice" THEN Mint ELSE IF a = "bob" THEN 1 ELSE 0]
    /\ unit_bits = 0

(* ------------------------------ config -------------------------------- *)
\* a variant without the already-initialized check
config_error_reinitializes(signer, config_admin) ==
    IF ~require_auth(config_admin, signer) THEN "Unauthorized" ELSE "none"

\* the checks of config in source order; "none" when all pass
config_error(signer, config_admin) ==
    IF ~require_auth(config_admin, signer) THEN "Unauthorized"
    ELSE IF is_initialized THEN "AlreadyInitialized"
    ELSE "none"

config(signer, config_admin, config_fee) ==
    /\ config_error(signer, config_admin) = "none"
    /\ admin' = config_admin
    /\ fee' = config_fee
    /\ token' = "token"
    /\ last_subscription_id' = 0
    /\ UNCHANGED <<subscriptions, timestamp, balances, unit_bits>>

(* ------------------------------ set_fee ------------------------------- *)
\* a variant that settles what is due at the old fee before replacing it
set_fee_settles_dues(signer, new_fee) ==
    /\ not_admin_error(signer) = "none"
    /\ fee' = new_fee
    /\ subscriptions' = [id \in DOMAIN subscriptions |->
                            IF now - subscriptions[id].updated >= DAY
                            THEN [subscriptions[id] EXCEPT !.updated = now]
                            ELSE subscriptions[id]]
    /\ UNCHANGED <<admin, token, last_subscription_id, timestamp, balances, unit_bits>>

\* set_fee publishes no event and calls no token function
set_fee_effects == << >>

set_fee(signer, new_fee) ==
    /\ not_admin_error(signer) = "none"
    /\ fee' = new_fee
    /\ UNCHANGED <<admin, token, last_subscription_id, subscriptions, timestamp, balances, unit_bits>>

(* ------------------------------ trigger ------------------------------- *)
\* the timestamp and the hash are opaque to the contract: the ledger time and 0 stand for them
trigger_effects == <<Event("activated", NoAddress, <<timestamp, 0>>)>>

trigger(signer) ==
    /\ not_admin_error(signer) = "none"
    /\ UNCHANGED <<storage, timestamp, balances, unit_bits>>

(* ------------------------------ charge -------------------------------- *)
\* a variant that counts a started day as a whole one
elapsed_days_rounded_up(t, updated) == (t - updated + DAY - 1) \div DAY

\* let days = (now - subscription.updated) / DAY
elapsed_days(t, updated) == (t - updated) \div DAY

\* a variant that bills nothing
charge_amount_nothing(days, f, balance) == 0

\* a variant without the clamp to the balance
charge_amount_unclamped(days, f, balance) == days * f

\* let mut charge = days * fee; if subscription.balance < charge { charge = subscription.balance }
\* days * fee is a u64 product.  When it does not fit, a build with overflow
\* checks panics there (charge_overflows) and a build without them goes on
\* with the wrapped product (wrap_u64).
charge_amount(days, f, balance) ==
    LET charge == wrap_u64(days * f)
    IN  IF balance < charge THEN balance ELSE charge

\* a variant that suspends when the balance equals the fee
status_after_charge_at_fee(status, balance, f) ==
    IF balance <= f THEN "Suspended" ELSE status

\* if subscription.balance < fee { subscription.status = Suspended }
status_after_charge(status, balance, f) ==
    IF balance < f THEN "Suspended" ELSE status

\* a variant of the iteration that leaves `updated` as it was
charge_iter_keeps_updated(acc, f, t, subscription_id) ==
    IF subscription_id \notin DOMAIN acc.subs THEN acc
    ELSE LET subscription == acc.subs[subscription_id]
             days == elapsed_days(t, subscription.updated)
         IN  IF days = 0 THEN acc
             ELSE LET charge == charge_amount(days, f, subscription.balance)
                      balance == subscription.balance - charge
                      charged == [subscription EXCEPT
                                     !.balance = balance,
                                     !.status = status_after_charge(@, balance, f)]
                  IN  [acc EXCEPT !.subs = [acc.subs EXCEPT ![subscription_id] = charged],
                                  !.writes = Append(acc.writes, Write(subscription_id)),
                                  !.total_charge = acc.total_charge + charge]

\* one iteration of the loop over subscription_ids;
\* acc = [subs, writes, events, total_charge, overflow], overflow telling
\* whether a product days * fee of the loop did not fit a u64
charge_iter(acc, f, t, subscription_id) ==
    IF subscription_id \notin DOMAIN acc.subs THEN acc
    ELSE LET subscription == acc.subs[subscription_id]
             days == elapsed_days(t, subscription.updated)
         IN  IF days = 0 THEN acc
             ELSE LET charge == charge_amount(days, f, subscription.balance)
                      balance == subscription.balance - charge
                      charged == [subscription EXCEPT
                                     !.balance = balance,
                                     !.updated = t,
                                     !.status = status_after_charge(@, balance, f)]
                  IN  [subs |-> [acc.subs EXCEPT ![subscription_id] = charged],
                       writes |-> Append(acc.writes, Write(subscription_id)),
                       events |-> acc.events
                                  \o (IF balance < f
                                      THEN <<Event("suspended", subscription.owner, <<t, subscription_id>>)>>
                                      ELSE << >>)
                                  \o <<Event("charged", subscription.owner, <<t, subscription_id>>)>>,
                       total_charge |-> acc.total_charge + charge,
                       overflow |-> acc.overflow \/ overflows_u64(days * f)]

\* a variant of the loop that stops at the first id without a record
RECURSIVE charge_loop_stops_at_unknown(_, _, _, _)
charge_loop_stops_at_unknown(acc, f, t, subscription_ids) ==
    IF subscription_ids = << >> THEN acc
    ELSE IF Head(subscription_ids) \notin DOMAIN acc.subs THEN acc
    ELSE charge_loop_stops_at_unknown(charge_iter(acc, f, t, Head(subscription_ids)),
                                      f, t, Tail(subscription_ids))

\* for subscription_id in subscription_ids.iter() { ... }
RECURSIVE charge_loop(_, _, _, _)
charge_loop(acc, f, t, subscription_ids) ==
    IF subscription_ids = << >> THEN acc
    ELSE charge_loop(charge_iter(acc, f, t, Head(subscription_ids)), f, t, Tail(subscription_ids))

\* the loop run from the stored records
charge_batch(subs, f, t, subscription_ids) ==
    charge_loop([subs |-> subs, writes |-> << >>, events |-> << >>, total_charge |-> 0,
                 overflow |-> FALSE],
                f, t, subscription_ids)

\* whether the call panics in a build with overflow checks: a product
\* days * fee of its loop does not fit a u64
charge_overflows(subs, f, t, subscription_ids) ==
    charge_batch(subs, f, t, subscription_ids).overflow

\* the errors of charge: the admin check, then the token's refusal of the final burn
charge_error(signer, subscription_ids) ==
    IF not_admin_error(signer) # "none" THEN not_admin_error(signer)
    ELSE IF balances[Contract] < charge_batch(subscriptions, fee, now, subscription_ids).total_charge
         THEN "TokenError"
    ELSE "none"

\* what a completed charge does, in order: the record writes of the loop, then,
\* unless total_charge is 0, the events and the burn
charge_effects(subs, f, t, subscription_ids) ==
    LET r == charge_batch(subs, f, t, subscription_ids)
    IN  IF r.total_charge = 0 THEN r.writes
        ELSE r.writes \o r.events \o <<Burn(r.total_charge)>>

charge(signer, subscription_ids) ==
    LET r == charge_batch(subscriptions, fee, now, subscription_ids)
    IN  /\ charge_error(signer, subscription_ids) = "none"
        /\ subscriptions' = r.subs
        /\ balances' = IF r.total_charge = 0 THEN balances
                       ELSE burn_tokens(balances, r.total_charge)
        /\ UNCHANGED <<admin, fee, token, last_subscription_id, timestamp, unit_bits>>

(* ------------------------- create_subscription ------------------------ *)
\* a variant that checks the threshold before the heartbeat
create_subscription_error_reordered(signer, owner, amount, heartbeat, threshold, webhook_len) ==
    IF ~is_initialized THEN "NotInitialized"
    ELSE IF ~require_auth(owner, signer) THEN "Unauthorized"
    ELSE IF amount < fee * MIN_FEE_FACTOR THEN "InvalidAmount"
    ELSE IF threshold = 0 \/ threshold > 1000 THEN "InvalidThreshold"
    ELSE IF MIN_HEARTBEAT > heartbeat THEN "InvalidHeartbeat"
    ELSE IF webhook_len > MAX_WEBHOOK_SIZE THEN "WebhookTooLong"
    ELSE IF balances[owner] < amount THEN "TokenError"
    ELSE "none"

\* the checks of create_subscription in source order; "none" when all pass
create_subscription_error(signer, owner, amount, heartbeat, threshold, webhook_len) ==
    IF ~is_initialized THEN "NotInitialized"
    ELSE IF ~require_auth(owner, signer) THEN "Unauthorized"
    ELSE IF amount < fee * MIN_FEE_FACTOR THEN "InvalidAmount"
    ELSE IF MIN_HEARTBEAT > heartbeat THEN "InvalidHeartbeat"
    ELSE IF threshold = 0 \/ threshold > 1000 THEN "InvalidThreshold"
    ELSE IF webhook_len > MAX_WEBHOOK_SIZE THEN "WebhookTooLong"
    ELSE IF balances[owner] < amount THEN "TokenError"
    ELSE "none"

\* a variant that keeps the burn amount in custody
transfer_tokens_to_current_contract_without_burn(bal, from, amount, burn_amount) ==
    transfer_tokens(bal, from, Contract, amount)

\* transfer_tokens_to_current_contract: the ledger after the transfer and the burn
transfer_tokens_to_current_contract(bal, from, amount, burn_amount) ==
    LET moved == transfer_tokens(bal, from, Contract, amount)
    IN  IF burn_amount > 0 THEN burn_tokens(moved, burn_amount) ELSE moved

\* the calls transfer_tokens_to_current_contract makes on the token, in order
transfer_effects(from, amount, burn_amount) ==
    <<Transfer(from, Contract, amount)>>
    \o (IF burn_amount > 0 THEN <<Burn(burn_amount)>> ELSE << >>)

\* a variant that credits the whole deposit
new_subscription_record_unbilled(owner, amount, activation_fee, heartbeat, threshold, webhook_len) ==
    [owner |-> owner, threshold |-> threshold, heartbeat |-> heartbeat,
     webhook |-> webhook_len, balance |-> amount,
     status |-> "Active", updated |-> now]

\* the record create_subscription stores
new_subscription_record(owner, amount, activation_fee, heartbeat, threshold, webhook_len) ==
    [owner |-> owner, threshold |-> threshold, heartbeat |-> heartbeat,
     webhook |-> webhook_len, balance |-> amount - activation_fee,
     status |-> "Active", updated |-> now]

\* return (subscription_id, subscription)
create_subscription_ret(owner, amount, heartbeat, threshold, webhook_len) ==
    <<last_subscription_id + 1,
      new_subscription_record(owner, amount, fee * MIN_FEE_FACTOR, heartbeat, threshold, webhook_len)>>

create_subscription_effects(owner, amount) ==
    transfer_effects(owner, amount, fee * MIN_FEE_FACTOR)
    \o <<Write(last_subscription_id + 1), Event("created", owner, <<last_subscription_id + 1, 0>>)>>

create_subscription(signer, owner, amount, heartbeat, threshold, webhook_len) ==
    LET activation_fee == fee * MIN_FEE_FACTOR
        subscription_id == last_subscription_id + 1
        subscription == new_subscription_record(owner, amount, activation_fee,
                                                heartbeat, threshold, webhook_len)
    IN  /\ create_subscription_error(signer, owner, amount, heartbeat, threshold, webhook_len) = "none"
        /\ last_subscription_id < MaxSubs
        /\ balances' = transfer_tokens_to_current_contract(balances, owner, amount, activation_fee)
        /\ subscriptions' = [id \in DOMAIN subscriptions \cup {subscription_id} |->
                                IF id = subscription_id THEN subscription ELSE subscriptions[id]]
        /\ last_subscription_id' = subscription_id
        /\ UNCHANGED <<admin, fee, token, timestamp, unit_bits>>

(* ------------------------------ deposit ------------------------------- *)
\* the checks of deposit in source order; "none" when all pass
deposit_error(signer, from, subscription_id, amount) ==
    IF ~is_initialized THEN "NotInitialized"
    ELSE IF ~require_auth(from, signer) THEN "Unauthorized"
    ELSE IF amount = 0 THEN "InvalidAmount"
    ELSE IF subscription_id \notin DOMAIN subscriptions THEN "SubscriptionNotFound"
    ELSE IF subscriptions[subscription_id].status = "Suspended" /\ amount < fee THEN "InvalidAmount"
    ELSE IF subscriptions[subscription_id].status = "Cancelled" THEN "InvalidSubscriptionStatusError"
    ELSE IF balances[from] < amount THEN "TokenError"
    ELSE "none"

\* a variant that reactivates without a burn
deposit_burn_amount_none(status, f) == 0

\* a variant that burns a fee on every deposit
deposit_burn_amount_always(status, f) == f

\* match subscription.status { Suspended => burn_amount = fee, .. }
deposit_burn_amount(status, f) == IF status = "Suspended" THEN f ELSE 0

\* match subscription.status { Suspended => status = Active, .. }
status_after_deposit(status) == IF status = "Suspended" THEN "Active" ELSE status

deposit_effects(from, subscription_id, amount) ==
    transfer_effects(from, amount, deposit_burn_amount(subscriptions[subscription_id].status, fee))
    \o <<Write(subscription_id),
         Event("deposited", subscriptions[subscription_id].owner, <<subscription_id, amount>>)>>

\* a variant that restarts the billing cycle when it reactivates
deposit_restarts_cycle(signer, from, subscription_id, amount) ==
    /\ deposit_error(signer, from, subscription_id, amount) = "none"
    /\ LET subscription == subscriptions[subscription_id]
           burn_amount == deposit_burn_amount(subscription.status, fee)
           deposited == [subscription EXCEPT
                            !.status = status_after_deposit(@),
                            !.balance = @ + (amount - burn_amount),
                            !.updated = IF subscription.status = "Suspended" THEN now ELSE @]
       IN  /\ balances' = transfer_tokens_to_current_contract(balances, from, amount, burn_amount)
           /\ subscriptions' = [subscriptions EXCEPT ![subscription_id] = deposited]
           /\ UNCHANGED <<admin, fee, token, last_subscription_id, timestamp, unit_bits>>

deposit(signer, from, subscription_id, amount) ==
    /\ deposit_error(signer, from, subscription_id, amount) = "none"
    /\ LET subscription == subscriptions[subscription_id]
           burn_amount == deposit_burn_amount(subscription.status, fee)
           deposited == [subscription EXCEPT
                            !.status = status_after_deposit(@),
                            !.balance = @ + (amount - burn_amount)]
       IN  /\ balances' = transfer_tokens_to_current_contract(balances, from, amount, burn_amount)
           /\ subscriptions' = [subscriptions EXCEPT ![subscription_id] = deposited]
           /\ UNCHANGED <<admin, fee, token, last_subscription_id, timestamp, unit_bits>>

(* ------------------------------ cancel -------------------------------- *)
\* a variant that lets a Suspended subscription be cancelled
cancel_error_allows_suspended(signer, subscription_id) ==
    IF ~is_initialized THEN "NotInitialized"
    ELSE IF subscription_id \notin DOMAIN subscriptions THEN "SubscriptionNotFound"
    ELSE IF ~require_auth(subscriptions[subscription_id].owner, signer) THEN "Unauthorized"
    ELSE IF subscriptions[subscription_id].status = "Cancelled" THEN "InvalidSubscriptionStatusError"
    ELSE IF balances[Contract] < subscriptions[subscription_id].balance THEN "TokenError"
    ELSE "none"

\* the checks of cancel in source order; "none" when all pass
cancel_error(signer, subscription_id) ==
    IF ~is_initialized THEN "NotInitialized"
    ELSE IF subscription_id \notin DOMAIN subscriptions THEN "SubscriptionNotFound"
    ELSE IF ~require_auth(subscriptions[subscription_id].owner, signer) THEN "Unauthorized"
    ELSE IF subscriptions[subscription_id].status # "Active" THEN "InvalidSubscriptionStatusError"
    ELSE IF balances[Contract] < subscriptions[subscription_id].balance THEN "TokenError"
    ELSE "none"

cancel_effects(subscription_id) ==
    <<Transfer(Contract, subscriptions[subscription_id].owner, subscriptions[subscription_id].balance),
      Write(subscription_id),
      Event("cancelled", subscriptions[subscription_id].owner, <<subscription_id, 0>>)>>

\* a variant that leaves the refunded balance on the record
cancelled_subscription_keeps_balance(subscription) ==
    [subscription EXCEPT !.status = "Cancelled"]

\* subscription.status = Cancelled; subscription.balance = 0
cancelled_subscription(subscription) ==
    [subscription EXCEPT !.status = "Cancelled", !.balance = 0]

\* a variant that deletes the record instead of marking it
cancel_removes_record(signer, subscription_id) ==
    /\ cancel_error(signer, subscription_id) = "none"
    /\ balances' = transfer_tokens(balances, Contract, subscriptions[subscription_id].owner,
                                   subscriptions[subscription_id].balance)
    /\ subscriptions' = [id \in DOMAIN subscriptions \ {subscription_id} |-> subscriptions[id]]
    /\ UNCHANGED <<admin, fee, token, last_subscription_id, timestamp, unit_bits>>

cancel(signer, subscription_id) ==
    /\ cancel_error(signer, subscription_id) = "none"
    /\ LET subscription == subscriptions[subscription_id]
           cancelled == cancelled_subscription(subscription)
       IN  /\ balances' = transfer_tokens(balances, Contract, subscription.owner, subscription.balance)
           /\ subscriptions' = [subscriptions EXCEPT ![subscription_id] = cancelled]
           /\ UNCHANGED <<admin, fee, token, last_subscription_id, timestamp, unit_bits>>

(* ------------------------------ clock --------------------------------- *)
Tick ==
    /\ timestamp < MaxTicks * TickSeconds
    /\ timestamp' = timestamp + TickSeconds
    /\ UNCHANGED <<storage, balances, unit_bits>>

Next ==
    \/ \E s \in Addresses, a \in ConfigAdmins, f \in Fees : config(s, a, f)
    \/ \E s \in Addresses, f \in Fees : set_fee(s, f)
    \/ \E s \in Addresses : trigger(s)
    \/ \E s \in Addresses, ids \in Batches : charge(s, ids)
    \/ \E s \in Addresses, o \in Owners, a \in Amounts, h \in Heartbeats,
          th \in Thresholds, w \in WebhookLens : create_subscription(s, o, a, h, th, w)
    \/ \E s \in Addresses, from \in Addresses, id \in Ids, a \in Amounts : deposit(s, from, id, a)
    \/ \E s \in Addresses, id \in Ids : cancel(s, id)
    \/ Tick

Spec == Init /\ [][Next]_vars

(* ------------------------- amounts near 2^64 -------------------------- *)
\* the same contract with amounts in units of 2^62 tokens: a u64 holds less
\* than 4 units.  The tokens in existence stay below 2^64, so that balances,
\* deposits and total_charge fit; a product days * fee may not.
WideUnitBits == U64_BITS - 2

InitWide ==
    /\ admin = NoAddress
    /\ fee = 0
    /\ token = NoAddress
    /\ last_subscription_id = 0
    /\ subscriptions = << >>
    /\ timestamp = 0
    /\ balances = [a \in Addresses \cup {Contract} |->
                      IF a = "alice" THEN 2 ELSE IF a = "bob" THEN 1 ELSE 0]
    /\ unit_bits = WideUnitBits

SpecWide == InitWide /\ [][Next]_vars
(* --------------------------- a running clock -------------------------- *)
\* The clock never stops.  The contract reads the time only as the age
\* now - updated of a record, and with fewer tokens in existence than the
\* window of MaxTicks ticks has whole days, an age of the whole window bills a
\* record as any greater age does (days * fee is 0 or at least the balance).
\* So when the window is used up the ledger time stays and every `updated`
\* moves back by one tick instead, not below 0.
TickOn ==
    IF timestamp < MaxTicks * TickSeconds
    THEN /\ timestamp' = timestamp + TickSeconds
         /\ UNCHANGED <<storage, balances, unit_bits>>
    ELSE /\ subscriptions' = [id \in DOMAIN subscriptions |->
                                 [subscriptions[id] EXCEPT
                                     !.updated = IF @ < TickSeconds * 1000 THEN 0
                                                 ELSE @ - TickSeconds * 1000]]
         /\ UNCHANGED <<admin, fee, token, last_subscription_id, timestamp, balances, unit_bits>>

\* the admin's scheduled charge of one subscription that is due
DueCharge(subscription_id) ==
    /\ subscription_id \in DOMAIN subscriptions
    /\ now - subscriptions[subscription_id].updated >= DAY
    /\ charge(admin, <<subscription_id>>)

\* as many tokens as the window has whole days
InitOn ==
    /\ admin = NoAddress
    /\ fee = 0
    /\ token = NoAddress
    /\ last_subscription_id = 0
    /\ subscriptions = << >>
    /\ timestamp = 0
    /\ balances = [a \in Addresses \cup {Contract} |->
                      IF a = "alice" THEN (MaxTicks * TickSeconds * 1000) \div DAY - 1
                      ELSE IF a = "bob" THEN 1 ELSE 0]
    /\ unit_bits = 0

NextOn ==
    \/ \E s \in Addresses, a \in ConfigAdmins, f \in Fees : config(s, a, f)
    \/ \E s \in Addresses, f \in Fees : set_fee(s, f)
    \/ \E s \in Addresses : trigger(s)
    \/ \E s \in Addresses, ids \in Batches : charge(s, ids)
    \/ \E s \in Addresses, o \in Owners, a \in Amounts, h \in Heartbeats,
          th \in Thresholds, w \in WebhookLens : create_subscription(s, o, a, h, th, w)
    \/ \E s \in Addresses, from \in Addresses, id \in Ids, a \in Amounts : deposit(s, from, id, a)
    \/ \E s \in Addresses, id \in Ids : cancel(s, id)
    \/ TickOn

\* the clock keeps advancing and the admin keeps charging every due subscription
SpecOn ==
    /\ InitOn
    /\ [][NextOn]_vars
    /\ WF_vars(TickOn)
    /\ \A id \in 1 .. MaxSubs : WF_vars(DueCharge(id))

(* ============================== claims ================================ *)
Range(seq) == {seq[i] : i \in DOMAIN seq}

\* the ids of a batch that charge processes: the record exists and at least one
\* full day has elapsed since its `updated`
Processed(subscription_ids) ==
    {id \in Range(subscription_ids) \cap DOMAIN subscriptions :
        now - subscriptions[id].updated >= DAY}

\* C1 (as claimed): once a subscription's status is Cancelled, its status is
\* Cancelled and its balance is 0 in every later state.
C1_CancelledIsTerminal ==
    [][\A id \in DOMAIN subscriptions :
          subscriptions[id].status = "Cancelled"
          => /\ subscriptions'[id].status = "Cancelled"
             /\ subscriptions'[id].balance = 0]_vars

\* C2 (as claimed): after a charge call every subscription it processed is
\* Suspended if and only if its resulting balance is below the fee.
C2_SuspendedIffBelowFee ==
    [][\A s \in Addresses, ids \in Batches :
          charge(s, ids)
          => \A id \in Processed(ids) :
                 (subscriptions'[id].status = "Suspended")
                 <=> (subscriptions'[id].balance < fee)]_vars

\* C2 (amended): after a charge call every subscription it processed is
\* Suspended if and only if its resulting balance is below the fee or it was
\* Suspended before the call; in every other case its status is unchanged.
C2_SuspendedIffBelowFeeOrWasSuspended ==
    [][\A s \in Addresses, ids \in Batches :
          charge(s, ids)
          => \A id \in Processed(ids) :
                 /\ (subscriptions'[id].status = "Suspended")
                    <=> (\/ subscriptions'[id].balance < fee
                         \/ subscriptions[id].status = "Suspended")
                 /\ subscriptions'[id].status # "Suspended"
                    => subscriptions'[id].status = subscriptions[id].status]_vars

\* a charge is made that processes an already Suspended subscription and leaves
\* it Suspended with a positive balance that is not below the fee
C2_Witness ==
    ENABLED (\E ids \in Batches : \E id \in Processed(ids) :
                /\ charge(admin, ids)
                /\ subscriptions[id].status = "Suspended"
                /\ subscriptions'[id].status = "Suspended"
                /\ subscriptions'[id].balance > 0
                /\ subscriptions'[id].balance >= fee)

Min(a, b) == IF a < b THEN a ELSE b

\* C3: every id a charge processes, with days = floor((now - updated) / DAY) >= 1,
\* gets balance - min(days * fee, balance) as its new balance and now as its
\* `updated`, also when the amount was clamped; and no step of any operation
\* leaves a balance below 0.
C3_ChargeIsClampedToBalance ==
    [][/\ \A s \in Addresses, ids \in Batches :
             charge(s, ids)
             => \A id \in Processed(ids) :
                    LET days == (now - subscriptions[id].updated) \div DAY
                    IN  /\ days >= 1
                        /\ subscriptions'[id].balance
                             = subscriptions[id].balance - Min(days * fee, subscriptions[id].balance)
                        /\ subscriptions'[id].updated = now
       /\ \A id \in DOMAIN subscriptions' : subscriptions'[id].balance >= 0]_vars

\* a charge is made that processes a subscription whose positive balance is
\* smaller than days * fee: the amount is clamped and `updated` still moves
C3_Witness ==
    ENABLED (\E ids \in Batches : \E id \in Processed(ids) :
                /\ charge(admin, ids)
                /\ subscriptions[id].balance > 0
                /\ subscriptions[id].balance
                     < ((now - subscriptions[id].updated) \div DAY) * fee
                /\ subscriptions'[id].balance = 0
                /\ subscriptions'[id].updated = now)

\* the ids of a batch whose record exists and was updated less than a day ago
TooSoon(subscription_ids) ==
    {id \in Range(subscription_ids) \cap DOMAIN subscriptions :
        now - subscriptions[id].updated < DAY}

Without(seq, id) == SelectSeq(seq, LAMBDA x : x # id)

\* C4: a charge leaves the balance, status and `updated` of every named
\* subscription whose `updated` is less than one full day before now unchanged,
\* and the amount it burns is that of the batch without that id, whatever the
\* other ids of the batch are.
C4_DayGranularity ==
    [][\A s \in Addresses, ids \in Batches :
          charge(s, ids)
          => \A id \in TooSoon(ids) :
                 /\ subscriptions'[id] = subscriptions[id]
                 /\ balances[Contract] - balances'[Contract]
                      = charge_batch(subscriptions, fee, now, Without(ids, id)).total_charge]_vars

\* a charge is made on a batch that names a funded subscription updated half a
\* day ago together with one that is due, and burns for the due one only
C4_Witness ==
    ENABLED (\E ids \in Batches : \E id \in TooSoon(ids), other \in Processed(ids) :
                /\ charge(admin, ids)
                /\ fee > 0
                /\ now - subscriptions[id].updated > 0
                /\ subscriptions[id].balance >= fee
                /\ subscriptions'[id] = subscriptions[id]
                /\ subscriptions'[other].balance < subscriptions[other].balance
                /\ balances'[Contract] < balances[Contract])

\* the id lists batch tolerance is checked on: one longer than a charge batch
LongBatches == SeqsUpTo(Ids, MaxBatch + 1)

\* a batch without the ids that have no record
KnownOnly(subscription_ids) ==
    SelectSeq(subscription_ids, LAMBDA x : x \in DOMAIN subscriptions)

\* C5: in every reachable state and for every id list, an admin charge on the
\* list succeeds, and its records, total (the burn and the custody change),
\* store writes and events are those of the charge on the list without the ids
\* of non-existent subscriptions.
C5_BatchTolerance ==
    is_initialized
    => \A ids \in LongBatches :
           /\ charge_error(admin, ids) = "none"
           /\ charge_batch(subscriptions, fee, now, ids)
                = charge_batch(subscriptions, fee, now, KnownOnly(ids))
           /\ charge_effects(subscriptions, fee, now, ids)
                = charge_effects(subscriptions, fee, now, KnownOnly(ids))

\* a charge is made on a list with unknown ids before and after a known, due,
\* funded id, and it bills that id
C5_Witness ==
    ENABLED (\E ids \in LongBatches :
                /\ Len(ids) = 3
                /\ ids[1] \notin DOMAIN subscriptions
                /\ ids[3] \notin DOMAIN subscriptions
                /\ ids[2] \in Processed(ids)
                /\ charge(admin, ids)
                /\ subscriptions'[ids[2]].balance < subscriptions[ids[2]].balance)

\* the tokens in existence
Supply(bal) == bal["admin"] + bal["alice"] + bal["bob"] + bal[Contract]

\* C6 (as claimed): a deposit to a Suspended subscription fails with
\* InvalidAmount when amount < fee and succeeds when amount >= fee (the payer
\* signing and holding the amount).
C6_ReactivationGateAsClaimed ==
    \A from \in Addresses, id \in DOMAIN subscriptions, amount \in Amounts :
        subscriptions[id].status = "Suspended"
        => IF amount < fee
           THEN deposit_error(from, from, id, amount) = "InvalidAmount"
           ELSE balances[from] >= amount => deposit_error(from, from, id, amount) = "none"

\* the errors of a deposit to a Suspended subscription by a payer who signs
C6_Gate ==
    \A from \in Addresses, id \in DOMAIN subscriptions, amount \in Amounts :
        subscriptions[id].status = "Suspended"
        => IF amount < fee \/ amount = 0
           THEN deposit_error(from, from, id, amount) = "InvalidAmount"
           ELSE balances[from] >= amount => deposit_error(from, from, id, amount) = "none"

\* the effect of a deposit that a Suspended subscription accepts
C6_Reactivation ==
    \A s \in Addresses, from \in Addresses, id \in Ids, amount \in Amounts :
        (deposit(s, from, id, amount) /\ subscriptions[id].status = "Suspended")
        => /\ amount >= fee /\ amount > 0
           /\ subscriptions'[id].status = "Active"
           /\ subscriptions'[id].balance = subscriptions[id].balance + (amount - fee)
           /\ subscriptions'[id].updated = subscriptions[id].updated
           /\ Supply(balances') = Supply(balances) - fee
           /\ balances'[Contract] = balances[Contract] + (amount - fee)
           /\ \A other \in DOMAIN subscriptions \ {id} :
                  subscriptions'[other] = subscriptions[other]

\* C6 (amended): a deposit to a Suspended subscription with amount < fee or
\* amount = 0 fails with InvalidAmount; with amount >= fee and amount > 0, by a
\* payer who signs and holds the amount, it succeeds, burns exactly one fee,
\* adds amount - fee to the balance and sets the status to Active.
C6_ReactivationGate == []C6_Gate /\ [][C6_Reactivation]_vars

\* at a fee of 2, a payer holding 3 tokens faces a Suspended subscription: a
\* deposit of 1 is refused and a deposit of 3 is made and reactivates it
C6_Witness ==
    \E from \in Addresses, id \in DOMAIN subscriptions :
        /\ subscriptions[id].status = "Suspended"
        /\ fee = 2
        /\ deposit_error(from, from, id, 1) = "InvalidAmount"
        /\ ENABLED (/\ deposit(from, from, id, 3)
                    /\ subscriptions'[id].status = "Active"
                    /\ subscriptions'[id].balance = subscriptions[id].balance + 1)

\* C7: a create_subscription that succeeds moves amount from the owner into
\* custody, burns exactly fee * 1, stores under the next id a record with
\* balance amount - fee, status Active and updated = now, and returns that id
\* and that record.
C7_Creation ==
    [][\A owner \in Owners, amount \in Amounts, h \in {MIN_HEARTBEAT},
          th \in {10}, w \in {MAX_WEBHOOK_SIZE} :
          create_subscription(owner, owner, amount, h, th, w)
          => LET id == last_subscription_id + 1
             IN  /\ balances'[owner] = balances[owner] - amount
                 /\ balances'[Contract] = balances[Contract] + amount - fee * 1
                 /\ Supply(balances') = Supply(balances) - fee * 1
                 /\ id \notin DOMAIN subscriptions
                 /\ DOMAIN subscriptions' = DOMAIN subscriptions \cup {id}
                 /\ subscriptions'[id].owner = owner
                 /\ subscriptions'[id].balance = amount - fee
                 /\ subscriptions'[id].status = "Active"
                 /\ subscriptions'[id].updated = now
                 /\ last_subscription_id' = id
                 /\ create_subscription_ret(owner, amount, h, th, w) = <<id, subscriptions'[id]>>]_vars

\* a subscription is created at a positive fee and a later time with a deposit
\* above the fee
C7_Witness ==
    /\ fee > 0
    /\ timestamp > 0
    /\ ENABLED (\E amount \in Amounts :
                   /\ amount > fee
                   /\ create_subscription("alice", "alice", amount, MIN_HEARTBEAT, 10, MAX_WEBHOOK_SIZE)
                   /\ subscriptions'[last_subscription_id'].balance = amount - fee
                   /\ subscriptions'[last_subscription_id'].updated = now)

\* the checks the claim lists, in its order: <<error, whether the check fails>>
ClaimedChecks(amount, heartbeat, threshold, webhook_len) ==
    << <<"NotInitialized", ~is_initialized>>,
       <<"InvalidAmount", amount < fee>>,
       <<"InvalidHeartbeat", heartbeat < 5>>,
       <<"InvalidThreshold", threshold = 0 \/ threshold > 1000>>,
       <<"WebhookTooLong", webhook_len > 2048>> >>

FailingChecks(checks) == {i \in DOMAIN checks : checks[i][2]}

FirstFailing(checks) ==
    CHOOSE i \in FailingChecks(checks) : \A j \in FailingChecks(checks) : i <= j

\* whenever one of the listed checks fails, the error of a call signed by the
\* owner is that of the first one that fails
C8_FirstFailureWins ==
    \A owner \in Addresses, amount \in Amounts, h \in Heartbeats,
       th \in Thresholds, w \in WebhookLens :
        LET checks == ClaimedChecks(amount, h, th, w)
        IN  FailingChecks(checks) # {}
            => create_subscription_error(owner, owner, amount, h, th, w)
                 = checks[FirstFailing(checks)][1]

\* a step that stores a record, moves the id counter or moves tokens as a
\* create_subscription call does is a call that passed every listed check
C8_NoPartialState ==
    (\/ last_subscription_id' # last_subscription_id
     \/ DOMAIN subscriptions' # DOMAIN subscriptions)
    => \A s \in Addresses, owner \in Addresses, amount \in Amounts, h \in Heartbeats,
          th \in Thresholds, w \in WebhookLens :
           create_subscription(s, owner, amount, h, th, w)
           => FailingChecks(ClaimedChecks(amount, h, th, w)) = {}

\* C8: create_subscription reports the error of the first failing check in the
\* order not-initialized, amount < fee, heartbeat < 5, threshold = 0 or > 1000,
\* webhook length > 2048, and a call with a failing check transfers and burns
\* nothing, stores no record and leaves the id counter unchanged.
C8_ValidationOrder == []C8_FirstFailureWins /\ [][C8_NoPartialState]_vars

\* an initialized contract with a positive fee and a funded owner: calls fail
\* on the amount, on the heartbeat with a bad threshold behind it, and so on
C8_Witness ==
    /\ is_initialized
    /\ fee > 0
    /\ balances["alice"] >= fee
    /\ last_subscription_id = 1
    /\ create_subscription_error("alice", "alice", 0, 4, 0, 2049) = "InvalidAmount"
    /\ create_subscription_error("alice", "alice", fee, 4, 0, 2049) = "InvalidHeartbeat"
    /\ create_subscription_error("alice", "alice", fee, 5, 1001, 2049) = "InvalidThreshold"
    /\ create_subscription_error("alice", "alice", fee, 5, 10, 2049) = "WebhookTooLong"

\* the first config call sets admin, fee and token and the counter to 0
C9_FirstConfig ==
    \A s \in Addresses, a \in ConfigAdmins, f \in Fees :
        config(s, a, f)
        => /\ ~is_initialized
           /\ admin' = a /\ fee' = f /\ token' = "token" /\ last_subscription_id' = 0

\* a config call on an initialized contract, signed by the admin it names,
\* fails with AlreadyInitialized
C9_LaterConfigFails ==
    is_initialized
    => \A a \in Addresses : config_error(a, a) = "AlreadyInitialized"

\* on an initialized contract no step changes admin or token, resets the
\* counter or drops a record, and only set_fee changes the fee
C9_ConfigIsKept ==
    is_initialized
    => /\ admin' = admin /\ token' = token
       /\ last_subscription_id' >= last_subscription_id
       /\ DOMAIN subscriptions \subseteq DOMAIN subscriptions'
       /\ fee' # fee => \E s \in Addresses : set_fee(s, fee')

\* C9: the first config call sets admin, fee and token and resets the id
\* counter to 0; every later config call fails with AlreadyInitialized and
\* leaves admin, fee, token, the counter and the records unchanged.
C9_ConfiguredOnce ==
    []C9_LaterConfigFails /\ [][C9_FirstConfig /\ C9_ConfigIsKept]_vars

\* the contract is configured, subscriptions exist, and a config call with
\* another admin and another fee is refused
C9_Witness ==
    /\ is_initialized
    /\ last_subscription_id = 2
    /\ \E f \in Fees : f # fee
    /\ config_error("bob", "bob") = "AlreadyInitialized"

\* cancel on a Suspended or Cancelled subscription, signed by its owner, and a
\* deposit of a non-zero amount to a Cancelled one, signed by the payer, fail
\* with InvalidSubscriptionStatusError
C10_Gate ==
    \A id \in DOMAIN subscriptions :
        /\ subscriptions[id].status \in {"Suspended", "Cancelled"}
           => cancel_error(subscriptions[id].owner, id) = "InvalidSubscriptionStatusError"
        /\ subscriptions[id].status = "Cancelled"
           => \A from \in Addresses, amount \in Amounts \ {0} :
                  deposit_error(from, from, id, amount) = "InvalidSubscriptionStatusError"

\* a cancel or a deposit that changes anything found the status the gate wants
C10_NoChange ==
    /\ \A s \in Addresses, id \in Ids :
           cancel(s, id) => subscriptions[id].status = "Active"
    /\ \A s \in Addresses, from \in Addresses, id \in Ids, amount \in Amounts :
           deposit(s, from, id, amount) => subscriptions[id].status # "Cancelled"

\* C10: cancel on a Suspended or Cancelled subscription and a non-zero deposit
\* to a Cancelled one fail with InvalidSubscriptionStatusError and leave the
\* record, the custody balance and all account balances unchanged.
C10_StatusGate == []C10_Gate /\ [][C10_NoChange]_vars

\* a Cancelled and a Suspended subscription exist and a payer holds tokens
C10_Witness ==
    /\ \E id \in DOMAIN subscriptions : subscriptions[id].status = "Cancelled"
    /\ \E id \in DOMAIN subscriptions : subscriptions[id].status = "Suspended"
    /\ \E from \in Addresses :
           /\ balances[from] > 0
           /\ \E id \in DOMAIN subscriptions :
                  deposit_error(from, from, id, 1) = "InvalidSubscriptionStatusError"

\* C11: a cancel that succeeds found the subscription Active, moves exactly its
\* whole balance from custody to its owner (nothing is burned), sets its
\* balance to 0 and its status to Cancelled, and changes no other record.
C11_CancelRefund ==
    [][\A s \in Addresses, id \in Ids :
          cancel(s, id)
          => LET subscription == subscriptions[id]
             IN  /\ subscription.status = "Active"
                 /\ balances'[Contract] = balances[Contract] - subscription.balance
                 /\ balances'[subscription.owner]
                      = balances[subscription.owner] + subscription.balance
                 /\ \A a \in Addresses \ {subscription.owner} : balances'[a] = balances[a]
                 /\ cancel_effects(id)[1]
                      = Transfer(Contract, subscription.owner, subscription.balance)
                 /\ subscriptions'[id].balance = 0
                 /\ subscriptions'[id].status = "Cancelled"
                 /\ subscriptions'[id].owner = subscription.owner
                 /\ subscriptions'[id].updated = subscription.updated
                 /\ DOMAIN subscriptions' = DOMAIN subscriptions
                 /\ \A other \in DOMAIN subscriptions \ {id} :
                        subscriptions'[other] = subscriptions[other]]_vars

\* an Active subscription with a positive balance is cancelled by its owner
\* while another subscription with a positive balance exists
C11_Witness ==
    \E id \in DOMAIN subscriptions, other \in DOMAIN subscriptions :
        /\ other # id
        /\ subscriptions[other].balance > 0
        /\ subscriptions[id].balance > 0
        /\ ENABLED (/\ cancel(subscriptions[id].owner, id)
                    /\ subscriptions'[id].status = "Cancelled"
                    /\ balances'[Contract] = subscriptions[other].balance)

\* on an initialized contract a deposit of amount 0 signed by the payer fails
\* with InvalidAmount, one of a non-zero amount to an id without a record fails
\* with SubscriptionNotFound, and one of a non-zero amount the payer holds to
\* an Active subscription is accepted
C12_Gate ==
    is_initialized
    => \A from \in Addresses, id \in Ids :
           /\ deposit_error(from, from, id, 0) = "InvalidAmount"
           /\ \A amount \in Amounts \ {0} :
                  /\ id \notin DOMAIN subscriptions
                     => deposit_error(from, from, id, amount) = "SubscriptionNotFound"
                  /\ (/\ id \in DOMAIN subscriptions
                      /\ subscriptions[id].status = "Active"
                      /\ balances[from] >= amount)
                     => deposit_error(from, from, id, amount) = "none"

\* a deposit that changes anything has a non-zero amount and names a record;
\* made to an Active subscription it burns nothing, moves amount from the payer
\* into custody, adds amount to the balance and leaves the status Active
C12_Deposit ==
    \A s \in Addresses, from \in Addresses, id \in Ids, amount \in Amounts :
        deposit(s, from, id, amount)
        => /\ amount # 0
           /\ id \in DOMAIN subscriptions
           /\ subscriptions[id].status = "Active"
              => /\ subscriptions'[id].balance = subscriptions[id].balance + amount
                 /\ subscriptions'[id].status = "Active"
                 /\ Supply(balances') = Supply(balances)
                 /\ balances'[Contract] = balances[Contract] + amount
                 /\ balances'[from] = balances[from] - amount
                 /\ \A i \in DOMAIN deposit_effects(from, id, amount) :
                        deposit_effects(from, id, amount)[i].kind # "burn"
                 /\ \A other \in DOMAIN subscriptions \ {id} :
                        subscriptions'[other] = subscriptions[other]

\* C12: a deposit of a non-zero amount to an Active subscription, by any payer,
\* burns nothing, adds exactly amount to the balance and leaves the status
\* Active; a deposit of amount 0 fails with InvalidAmount and a deposit of a
\* non-zero amount to a non-existent id fails with SubscriptionNotFound, and
\* neither changes the state.
C12_DepositToActive == []C12_Gate /\ [][C12_Deposit]_vars

\* at a positive fee a payer who is not the owner adds to an Active
\* subscription, while an id without a record can be named
C12_Witness ==
    /\ fee > 0
    /\ \E id \in Ids : id \notin DOMAIN subscriptions
    /\ \E id \in DOMAIN subscriptions :
           /\ subscriptions[id].status = "Active"
           /\ subscriptions[id].owner # "bob"
           /\ ENABLED (/\ deposit("bob", "bob", id, 1)
                       /\ subscriptions'[id].status = "Active"
                       /\ subscriptions'[id].balance = subscriptions[id].balance + 1)

\* a record exists for every id from 1 to the counter and for no other id
C13_Dense == DOMAIN subscriptions = 1 .. last_subscription_id

\* a create_subscription that succeeds returns and stores the counter plus one,
\* an id without a record, and moves the counter to it; the counter moves on
\* no other step, and no step removes a record
C13_Counter ==
    /\ last_subscription_id' # last_subscription_id
       => /\ last_subscription_id' = last_subscription_id + 1
          /\ last_subscription_id' \notin DOMAIN subscriptions
          /\ DOMAIN subscriptions' = DOMAIN subscriptions \cup {last_subscription_id'}
          /\ \E s \in Addresses, o \in Owners, a \in Amounts, h \in Heartbeats,
                th \in Thresholds, w \in WebhookLens :
                 /\ create_subscription(s, o, a, h, th, w)
                 /\ create_subscription_ret(o, a, h, th, w)[1] = last_subscription_id'
    /\ last_subscription_id' = last_subscription_id
       => DOMAIN subscriptions' = DOMAIN subscriptions

\* C13: ids are dense and never reused: the counter starts at 0, every
\* successful create_subscription returns the counter plus one and moves the
\* counter to it (the n-th returns n), nothing else moves the counter, and in
\* every state, after cancels too, exactly the ids 1 .. counter have a record.
C13_DenseIds ==
    /\ last_subscription_id = 0
    /\ []C13_Dense
    /\ [][C13_Counter]_vars

\* two subscriptions were created, the first one was cancelled and keeps its id
C13_Witness ==
    /\ last_subscription_id = 2
    /\ subscriptions[1].status = "Cancelled"
    /\ subscriptions[2].status = "Active"
    /\ create_subscription_error("alice", "alice", fee, MIN_HEARTBEAT - 1, 10, 0) = "InvalidHeartbeat"

\* a set_fee step is signed by the admin, replaces the fee and leaves every
\* record and every token balance as it was, with no event, transfer or burn
C14_Frame ==
    \A s \in Addresses, f \in Fees :
        set_fee(s, f)
        => /\ s = admin
           /\ fee' = f
           /\ subscriptions' = subscriptions
           /\ balances' = balances
           /\ <<admin', token', last_subscription_id'>> = <<admin, token, last_subscription_id>>
           /\ set_fee_effects = << >>

\* on an initialized contract the fee is the one the last set_fee stored
C14_FeeIsLastSet ==
    (is_initialized /\ fee' # fee) => set_fee(admin, fee')

\* a charge bills every subscription it processes elapsed whole days times the
\* fee in force at the call, up to its balance; a deposit that reactivates a
\* Suspended subscription has amount >= that fee and burns exactly that fee
C14_FeeInForce ==
    /\ \A ids \in Batches :
           charge(admin, ids)
           => \A id \in Processed(ids) :
                  subscriptions[id].balance - subscriptions'[id].balance
                    = Min(((now - subscriptions[id].updated) \div DAY) * fee,
                          subscriptions[id].balance)
    /\ \A from \in Addresses, id \in Ids, amount \in Amounts :
           (deposit(from, from, id, amount) /\ subscriptions[id].status = "Suspended")
           => /\ amount >= fee
              /\ Supply(balances') = Supply(balances) - fee

\* a deposit to a Suspended subscription below the fee in force is refused
C14_Threshold ==
    \A from \in Addresses, id \in DOMAIN subscriptions, amount \in Amounts :
        (subscriptions[id].status = "Suspended" /\ amount < fee)
        => deposit_error(from, from, id, amount) = "InvalidAmount"

\* C14: set_fee by the admin replaces the fee and changes nothing else (no
\* balance, status or `updated`, no transfer, no burn); the next charge bills
\* elapsed whole days times the new fee and the next deposit to a Suspended
\* subscription has the new fee as its threshold and its burn.
C14_SetFee ==
    /\ []C14_Threshold
    /\ [][C14_Frame /\ C14_FeeIsLastSet /\ C14_FeeInForce]_vars

\* the admin can raise the fee while one subscription is due and funded, so that
\* its next charge is larger than at the old fee, and another is Suspended with
\* a payer whose deposit meets the old fee and not the new one
C14_Witness ==
    \E f \in Fees :
        /\ f > fee
        /\ \E id \in DOMAIN subscriptions :
               /\ subscriptions[id].status = "Active"
               /\ charge_batch(subscriptions, f, now, <<id>>).total_charge
                    > charge_batch(subscriptions, fee, now, <<id>>).total_charge
        /\ \E id \in DOMAIN subscriptions, from \in Addresses, amount \in Amounts :
               /\ subscriptions[id].status = "Suspended"
               /\ deposit_error(from, from, id, amount) = "none"
               /\ amount < f
        /\ ENABLED (set_fee(admin, f) /\ fee' = f /\ subscriptions' = subscriptions)

\* C15 (as claimed): on an initialized contract an admin charge completes
\* without error for every id list, whatever the statuses, balances and fee:
\* the final burn is covered by custody and no step of the loop can abort.
C15_ChargeNeverAborts ==
    is_initialized
    => \A ids \in Batches :
           /\ charge_error(admin, ids) = "none"
           /\ ~charge_overflows(subscriptions, fee, now, ids)

\* the effects of a kind: "set", "event", "transfer" or "burn"
OfKind(effects, kind) == SelectSeq(effects, LAMBDA x : x.kind = kind)

\* C16 (as claimed): a charge whose total over the whole batch is 0 is a no-op:
\* it publishes no event, burns nothing and leaves every subscription record
\* (balance, status, `updated`) as it was before the call.
C16_ZeroTotalIsNoOp ==
    is_initialized
    => \A ids \in Batches :
           LET r == charge_batch(subscriptions, fee, now, ids)
               effects == charge_effects(subscriptions, fee, now, ids)
           IN  (charge_error(admin, ids) = "none" /\ r.total_charge = 0)
               => /\ OfKind(effects, "event") = << >>
                  /\ OfKind(effects, "burn") = << >>
                  /\ r.subs = subscriptions

\* whether seq lists some of the elements of sequence full, in the order of full
RECURSIVE IsSubsequence(_, _)
IsSubsequence(seq, full) ==
    IF seq = << >> THEN TRUE
    ELSE IF full = << >> THEN FALSE
    ELSE IF Head(seq) = Head(full) THEN IsSubsequence(Tail(seq), Tail(full))
    ELSE IsSubsequence(seq, Tail(full))

\* C17 (as claimed): in a charge with a non-zero total the records are stored
\* in the order of the id list, every store precedes the first event, every
\* charged event precedes every suspended event, and all events precede the
\* one burn of the total, which comes last.
C17_OrderWithinCharge ==
    is_initialized
    => \A ids \in Batches :
           LET r == charge_batch(subscriptions, fee, now, ids)
               effects == charge_effects(subscriptions, fee, now, ids)
               stored == [i \in DOMAIN r.writes |-> r.writes[i].id]
           IN  (charge_error(admin, ids) = "none" /\ r.total_charge # 0)
               => /\ IsSubsequence(stored, ids)
                  /\ OfKind(effects, "burn") = <<Burn(r.total_charge)>>
                  /\ effects[Len(effects)] = Burn(r.total_charge)
                  /\ \A i, j \in DOMAIN effects :
                         /\ (effects[i].kind = "set" /\ effects[j].kind = "event") => i < j
                         /\ (effects[i].kind = "event" /\ effects[j].kind = "burn") => i < j
                         /\ (/\ effects[i].kind = "event" /\ effects[i].topic = "charged"
                             /\ effects[j].kind = "event" /\ effects[j].topic = "suspended")
                            => i < j

\* the sum of the balances of the records with the given ids
RECURSIVE SumOfBalances(_, _)
SumOfBalances(subs, ids) ==
    IF ids = {} THEN 0
    ELSE LET id == CHOOSE x \in ids : TRUE
         IN  subs[id].balance + SumOfBalances(subs, ids \ {id})

\* C18: in every reachable state the tokens the contract holds equal the sum
\* of the balances of all subscription records; the burn at the end of an
\* admin charge and the refund of a cancel never exceed what the contract holds.
C18_CustodyConservation ==
    /\ balances[Contract] = SumOfBalances(subscriptions, DOMAIN subscriptions)
    /\ is_initialized
       => \A ids \in Batches :
              /\ charge_error(admin, ids) # "TokenError"
              /\ charge_batch(subscriptions, fee, now, ids).total_charge <= balances[Contract]
    /\ \A id \in DOMAIN subscriptions :
           /\ cancel_error(subscriptions[id].owner, id) # "TokenError"
           /\ subscriptions[id].balance <= balances[Contract]

\* two funded subscriptions are in custody, tokens have been burned, a charge
\* can burn part of custody and a cancel can refund part of it
C18_Witness ==
    /\ Supply(balances) < Mint + 1
    /\ \E id \in DOMAIN subscriptions, other \in DOMAIN subscriptions :
           /\ id # other
           /\ subscriptions[id].balance > 0
           /\ subscriptions[other].balance > 0
           /\ ENABLED (/\ cancel(subscriptions[id].owner, id)
                       /\ balances'[Contract] = subscriptions[other].balance)
           /\ ENABLED (/\ charge(admin, <<other>>)
                       /\ balances'[Contract] < balances[Contract]
                       /\ balances'[Contract] >= subscriptions[id].balance)

\* the ids a charge on the list publishes a suspended event for
Announced(subscription_ids) ==
    LET events == OfKind(charge_effects(subscriptions, fee, now, subscription_ids), "event")
    IN  {events[i].data[2] : i \in {j \in DOMAIN events : events[j].topic = "suspended"}}

\* the ids whose status a charge on the list takes from Active to Suspended
NewlySuspended(subscription_ids) ==
    {id \in DOMAIN subscriptions :
        /\ subscriptions[id].status = "Active"
        /\ charge_batch(subscriptions, fee, now, subscription_ids).subs[id].status = "Suspended"}

\* C19 (as claimed): a charge publishes a suspended event for an id if and only
\* if it takes that subscription's status from Active to Suspended.
C19_SuspendedEventIffTransition ==
    is_initialized
    => \A ids \in Batches :
           charge_error(admin, ids) = "none"
           => Announced(ids) = NewlySuspended(ids)

\* the list without the later repeats of each id
RECURSIVE WithoutRepeats(_)
WithoutRepeats(seq) ==
    IF seq = << >> THEN << >>
    ELSE LET front == WithoutRepeats(SubSeq(seq, 1, Len(seq) - 1))
             last == seq[Len(seq)]
         IN  IF last \in Range(front) THEN front ELSE Append(front, last)

\* C20: in every reachable state and for every id list, an admin charge on the
\* list leaves the records, the burned total and the custody balance that the
\* charge on the list without the later repeats of each id leaves, and fails
\* or succeeds as that one does.
C20_DuplicatesBilledOnce ==
    is_initialized
    => \A ids \in LongBatches :
           LET r == charge_batch(subscriptions, fee, now, ids)
               once == charge_batch(subscriptions, fee, now, WithoutRepeats(ids))
           IN  /\ r.subs = once.subs
               /\ r.total_charge = once.total_charge
               /\ balances[Contract] - r.total_charge = balances[Contract] - once.total_charge
               /\ charge_error(admin, ids) = charge_error(admin, WithoutRepeats(ids))
               /\ OfKind(charge_effects(subscriptions, fee, now, ids), "burn")
                    = OfKind(charge_effects(subscriptions, fee, now, WithoutRepeats(ids)), "burn")

\* a charge is made on a list that names twice a due subscription holding at
\* least two charges, and bills it one
C20_Witness ==
    ENABLED (\E ids \in Batches : \E id \in Processed(ids) :
                /\ Len(ids) = 2
                /\ ids[1] = ids[2]
                /\ charge(admin, ids)
                /\ subscriptions'[id].balance < subscriptions[id].balance
                /\ subscriptions'[id].balance
                     >= subscriptions[id].balance - subscriptions'[id].balance
                /\ balances[Contract] - balances'[Contract]
                     = subscriptions[id].balance - subscriptions'[id].balance)

\* a deposit leaves `updated` of every record as it was
C21_DepositKeepsUpdated ==
    \A from \in Addresses, id \in Ids, amount \in Amounts :
        deposit(from, from, id, amount)
        => \A any \in DOMAIN subscriptions :
               subscriptions'[any].updated = subscriptions[any].updated

\* `updated` of a record moves only in a charge that processes it, to now
C21_UpdatedIsLastCharge ==
    \A id \in DOMAIN subscriptions :
        subscriptions'[id].updated # subscriptions[id].updated
        => /\ subscriptions'[id].updated = now
           /\ \E ids \in Batches : charge(admin, ids) /\ id \in Processed(ids)

\* a charge bills a record it processes the fee times the whole days since its
\* `updated`, up to its balance
C21_BilledSinceUpdated ==
    \A ids \in Batches :
        charge(admin, ids)
        => \A id \in Processed(ids) :
               subscriptions[id].balance - subscriptions'[id].balance
                 = Min(fee * ((now - subscriptions[id].updated) \div DAY),
                       subscriptions[id].balance)

\* C21: deposit never changes a subscription's `updated`, also when it
\* reactivates a Suspended one; `updated` is the time of the last charge that
\* processed the subscription, so the first charge after a reactivation bills
\* the fee times all whole days since that charge (up to the balance), the
\* time spent Suspended included.
C21_DepositKeepsBillingAnchor ==
    [][subscriptions' # subscriptions
       => (C21_DepositKeepsUpdated /\ C21_UpdatedIsLastCharge /\ C21_BilledSinceUpdated)]_vars

\* at a positive fee a subscription that has been Suspended for a day or more
\* since its last charge is reactivated by a deposit that leaves it a balance
\* of at least the fee and its `updated` where it was, a whole day back
C21_Witness ==
    \E id \in DOMAIN subscriptions, from \in Addresses, amount \in Amounts :
        /\ fee > 0
        /\ subscriptions[id].status = "Suspended"
        /\ subscriptions[id].updated > 0
        /\ now - subscriptions[id].updated >= DAY
        /\ ENABLED (/\ deposit(from, from, id, amount)
                    /\ subscriptions'[id].status = "Active"
                    /\ subscriptions'[id].balance >= fee
                    /\ subscriptions'[id].updated = subscriptions[id].updated)

\* a deposit to the subscription or its cancellation
DepositOrCancel(id) ==
    \/ \E from \in Addresses, amount \in Amounts : deposit(from, from, id, amount)
    \/ \E s \in Addresses : cancel(s, id)

HasStatus(id, status) ==
    id \in DOMAIN subscriptions /\ subscriptions[id].status = status

\* a subscription leaves Active, other than by its cancellation, to Suspended
C22_ActiveToSuspended(id) ==
    (HasStatus(id, "Active") /\ ~HasStatus(id, "Active")' /\ ~DepositOrCancel(id))
    => HasStatus(id, "Suspended")'

\* C22: with the clock advancing and the admin charging the subscription
\* whenever a full day has passed since its last charge, if from some time on
\* the fee stays above 0 and no deposit or cancel is made to the subscription,
\* then it is eventually not Active any more, for good; and an Active
\* subscription that is not cancelled stops being Active by being Suspended.
C22_EventualSuspension ==
    /\ \A id \in 1 .. MaxSubs :
           (<>[](fee > 0) /\ <>[][~DepositOrCancel(id)]_vars)
           => <>[](~HasStatus(id, "Active"))
    /\ [][\A id \in 1 .. MaxSubs : C22_ActiveToSuspended(id)]_vars

\* at a positive fee an Active subscription is due and holds more than one
\* charge takes: the charge leaves it Active and another day has to pass
C22_Witness ==
    \E id \in DOMAIN subscriptions :
        /\ fee > 0
        /\ subscriptions[id].status = "Active"
        /\ ENABLED (/\ DueCharge(id)
                    /\ subscriptions'[id].status = "Active"
                    /\ subscriptions'[id].balance < subscriptions[id].balance)
====
